---- MODULE Spec2Model ----
(***************************************************************************)
(* jQuery monthSelector: a month/year picker made of a month <select>, a   *)
(* year <select> and First/Prev/Next/Last buttons, bound to a date range   *)
(* [config.minDate, config.maxDate].                                       *)
(*                                                                         *)
(* Time line.  A JavaScript Date holds a millisecond count.  The plugin    *)
(* only compares Dates, reads their month and year, builds the first       *)
(* instant of a month and steps one millisecond back from it.  The model   *)
(* keeps the order of instants and the month boundaries: every month has   *)
(* TicksPerMonth instants, the first one being day 1 at 00:00:00.000 and   *)
(* the last one the last millisecond of the month.  A Date is a record     *)
(* [kind, valid, time]; time counts ticks from month 0 of year 0.          *)
(*                                                                         *)
(* The widgets of one plugin call share config (read only after            *)
(* validation) and nothing else; the model follows the controls of one of  *)
(* them (widget) and keeps the ids of all of them (ids).                   *)
(*                                                                         *)
(* The definitions follow the latest version of the plugin (First and Last *)
(* buttons, id counter); version 1.0 has the same _setDate without them.   *)
(***************************************************************************)
EXTENDS Integers, Sequences, FiniteSets, TLC

VARIABLES
    counter,    \* $.fn.monthSelector.counter
    config,     \* the validated configuration of the plugin call
    ids,        \* the ids given to the widgets the plugin call built
    widget,     \* the controls of a widget: selects, options, buttons
    thrown,     \* what the last call or handler threw ("none": it returned)
    callbacks,  \* the invocations of config.callback during the last call or handler
    calls,      \* the _setDate calls that returned during the last call or handler
    lastOp,     \* the last call or handler that ran
    lastArg,    \* the candidate it passed to _setDate
    lastCfg     \* the minDate, maxDate, selectedDate the last plugin call was given

vars == <<counter, config, ids, widget, thrown, callbacks, calls, lastOp, lastArg, lastCfg>>

-----------------------------------------------------------------------------
(* Bounds of the model *)

FirstYear == 2023
NumYears == 3
TicksPerMonth == 2
MaxTargets == 2

(* The program's constant: the month <select> has 12 options *)
MonthsPerYear == 12

Years == FirstYear .. (FirstYear + NumYears - 1)
Months == 0 .. (MonthsPerYear - 1)
Days == 1 .. TicksPerMonth

-----------------------------------------------------------------------------
(* JavaScript values: Date objects and strings *)

InvalidDate == [kind |-> "Date", valid |-> FALSE, time |-> 0]
DateOf(t) == [kind |-> "Date", valid |-> TRUE, time |-> t]

\* new Date(year, month, day): month and day overflow roll over
NewDate(year, month, day) == DateOf((year * MonthsPerYear + month) * TicksPerMonth + (day - 1))

\* a date string "yyyy/mm/dd" is the tuple <<yyyy, mm, dd>>, mm counted from 1
StringOf(y, mm, dd) == [kind |-> "String", text |-> <<y, mm, dd>>]

\* new Date(string)
ParseDate(s) ==
    IF s.text[2] \in 1 .. MonthsPerYear /\ s.text[3] \in Days
    THEN NewDate(s.text[1], s.text[2] - 1, s.text[3])
    ELSE InvalidDate

instanceofDate(v) == v.kind = "Date"
isInvalidDate(d) == ~d.valid
getTime(d) == d.time
getMonth(d) == (d.time \div TicksPerMonth) % MonthsPerYear
getFullYear(d) == d.time \div (TicksPerMonth * MonthsPerYear)

\* a > b and a < b on Dates: false when either is an Invalid Date (NaN)
Gt(a, b) == a.valid /\ b.valid /\ a.time > b.time
Lt(a, b) == a.valid /\ b.valid /\ a.time < b.time

-----------------------------------------------------------------------------
(* The plugin's helpers *)

ToDate(v) == IF instanceofDate(v) THEN v ELSE ParseDate(v)

\* mutant of __getEndOfPreviousMonth: the step back by one instant is missing
EndOfPreviousMonthNoStep(month, year) == NewDate(year, month, 1)

__getEndOfPreviousMonth(month, year) == DateOf(getTime(NewDate(year, month, 1)) - 1)

\* mutant of __getStartOfNextMonth: December is followed by January of the same year
StartOfNextMonthNoRollover(month, year) == NewDate(year, (month + 1) % MonthsPerYear, 1)

__getStartOfNextMonth(month, year) == NewDate(year, month + 1, 1)

_getSelectedDate(w) == NewDate(w.year, w.month, 1)

\* mutant of ValidateConfig: selectedDate is not validated
ValidateConfigNoSelected(cfg) ==
    IF isInvalidDate(cfg.minDate) THEN "Invalid minDate"
    ELSE IF isInvalidDate(cfg.maxDate) THEN "Invalid maxDate"
    ELSE IF Gt(cfg.minDate, cfg.maxDate) THEN "minDate exceeds maxDate"
    ELSE "none"

\* what the plugin call throws before it touches any target element
ValidateConfig(cfg) ==
    IF isInvalidDate(cfg.minDate) THEN "Invalid minDate"
    ELSE IF isInvalidDate(cfg.maxDate) THEN "Invalid maxDate"
    ELSE IF isInvalidDate(cfg.selectedDate) THEN "Invalid selectedDate"
    ELSE IF Gt(cfg.minDate, cfg.maxDate) THEN "minDate exceeds maxDate"
    ELSE "none"

\* the year <option>s, from maxYear down to minYear
YearOptions(cfg) == getFullYear(cfg.minDate) .. getFullYear(cfg.maxDate)

\* the controls as rendered, before the first _setDate: each <select> shows its
\* first option, nothing is disabled
NewWidget(cfg) ==
    [month |-> 0, year |-> getFullYear(cfg.maxDate),
     optionDisabled |-> [m \in Months |-> FALSE],
     first |-> FALSE, prev |-> FALSE, next |-> FALSE, last |-> FALSE]

-----------------------------------------------------------------------------
(* _setDate *)

\* the one element of a set (used to compute a value once and name it)
The(S) == CHOOSE x \in S : TRUE

\* mutants of PullIntoRange: the lower limit is forgotten; the limits are swapped
PullIntoRangeNoMin(date, cfg) ==
    IF Gt(date, cfg.maxDate) THEN cfg.maxDate ELSE date

PullIntoRangeSwapped(date, cfg) ==
    IF Gt(date, cfg.maxDate) THEN cfg.minDate
    ELSE IF Lt(date, cfg.minDate) THEN cfg.maxDate
    ELSE date

PullIntoRange(date, cfg) ==
    IF Gt(date, cfg.maxDate) THEN cfg.maxDate
    ELSE IF Lt(date, cfg.minDate) THEN cfg.minDate
    ELSE date

\* mutants of MonthOptionDisabled: the year is not looked at; the limit months
\* themselves are disabled
MonthOptionDisabledAnyYear(val, year, minMonth, minYear, maxMonth, maxYear) ==
    val < minMonth \/ val > maxMonth

MonthOptionDisabledInclusive(val, year, minMonth, minYear, maxMonth, maxYear) ==
    \/ year = minYear /\ val <= minMonth
    \/ year = maxYear /\ val >= maxMonth

MonthOptionDisabled(val, year, minMonth, minYear, maxMonth, maxYear) ==
    \/ year = minYear /\ val < minMonth
    \/ year = maxYear /\ val > maxMonth

\* mutant of PrevDisabled: the start of the month is compared, not the instant before it
PrevDisabledFromStart(month, year, cfg) == Lt(NewDate(year, month, 1), cfg.minDate)

PrevDisabled(month, year, cfg) == Lt(__getEndOfPreviousMonth(month, year), cfg.minDate)

\* mutant of NextDisabled: December is followed by January of the same year
NextDisabledNoRollover(month, year, cfg) ==
    Gt(NewDate(year, (month + 1) % MonthsPerYear, 1), cfg.maxDate)

NextDisabled(month, year, cfg) == Gt(__getStartOfNextMonth(month, year), cfg.maxDate)

\* the controls after _setDate has set the selects and the disabled attributes
\* (the local variables of _setDate are computed once, as in the code)
UpdateControls(w, date, cfg) ==
    The({The({[month |-> month, year |-> year,
               optionDisabled |->
                   [val \in Months |->
                       MonthOptionDisabled(val, year, minMonth, minYear, maxMonth, maxYear)],
               first |-> prevOff, prev |-> prevOff,
               next |-> nextOff, last |-> nextOff] :
              minMonth \in {getMonth(cfg.minDate)}, minYear \in {getFullYear(cfg.minDate)},
              maxMonth \in {getMonth(cfg.maxDate)}, maxYear \in {getFullYear(cfg.maxDate)},
              prevOff \in {PrevDisabled(month, year, cfg)},
              nextOff \in {NextDisabled(month, year, cfg)}}) :
         month \in {getMonth(date)}, year \in {getFullYear(date)}})

\* config.callback.call(config.scope, _getSelectedDate()); seen is what the
\* callback finds in the controls when it runs
FireCallback(w, cfg) ==
    IF cfg.callback THEN <<[date |-> _getSelectedDate(w), seen |-> w]>> ELSE <<>>

\* mutants of _setDate: the callback is fired before the controls are updated;
\* the callback is fired before the candidate is validated
_setDateCallbackFirst(w, date, cfg) ==
    IF ~instanceofDate(date) \/ isInvalidDate(date)
    THEN [thrown |-> "Invalid date", widget |-> w, callbacks |-> <<>>]
    ELSE [thrown |-> "none",
          widget |-> UpdateControls(w, PullIntoRange(date, cfg), cfg),
          callbacks |-> FireCallback(w, cfg)]

_setDateValidatesLast(w, date, cfg) ==
    IF ~instanceofDate(date) \/ isInvalidDate(date)
    THEN [thrown |-> "Invalid date", widget |-> w, callbacks |-> FireCallback(w, cfg)]
    ELSE [thrown |-> "none",
          widget |-> UpdateControls(w, PullIntoRange(date, cfg), cfg),
          callbacks |-> FireCallback(UpdateControls(w, PullIntoRange(date, cfg), cfg), cfg)]

_setDate(w, date, cfg) ==
    IF ~instanceofDate(date) \/ isInvalidDate(date)
    THEN [thrown |-> "Invalid date", widget |-> w, callbacks |-> <<>>]
    ELSE The({[thrown |-> "none", widget |-> w2, callbacks |-> FireCallback(w2, cfg)] :
              w2 \in {The({UpdateControls(w, d, cfg) : d \in {PullIntoRange(date, cfg)}})}})

-----------------------------------------------------------------------------
(* The state before the plugin is called *)

NoConfig == [minDate |-> InvalidDate, maxDate |-> InvalidDate, callback |-> FALSE]
NoWidget == NewWidget(NoConfig)
NoCfg == <<>>
NoArg == [kind |-> "none"]

Constructed == ids # <<>>

Init ==
    /\ counter = 0
    /\ config = NoConfig
    /\ ids = <<>>
    /\ widget = NoWidget
    /\ thrown = "none"
    /\ callbacks = <<>>
    /\ calls = 0
    /\ lastOp = "none"
    /\ lastArg = NoArg
    /\ lastCfg = NoCfg

-----------------------------------------------------------------------------
(* Inputs.  The plugin treats every year alike, so minDate is drawn from    *)
(* FirstYear and maxDate from every year: ranges inside one month, inside   *)
(* one year, across one year end and around a whole year.  A configured     *)
(* date is the first or the last instant of its month.                      *)

LastYear == FirstYear + NumYears - 1
\* the months the configured dates are drawn from
CfgMonths == {0, 5, 11}
CfgDays == {1, TicksPerMonth}

MinValues ==
    {NewDate(FirstYear, m, d) : m \in CfgMonths, d \in CfgDays}
        \cup {InvalidDate, StringOf(FirstYear, 6, 1), StringOf(FirstYear, 13, 1)}

MaxValues ==
    {NewDate(y, m, d) : y \in Years, m \in CfgMonths, d \in CfgDays}
        \cup {InvalidDate, StringOf(LastYear, 12, TicksPerMonth), StringOf(LastYear, 0, 1)}

SelectedValues ==
    {NewDate(y, 5, d) : y \in Years, d \in CfgDays}
        \cup {NewDate(FirstYear, 0, 1), NewDate(LastYear, 11, TicksPerMonth)}
        \cup {InvalidDate, StringOf(FirstYear, 12, 1), StringOf(LastYear, 13, 1)}

-----------------------------------------------------------------------------
(* $(targets).monthSelector(cfg), on n target elements *)

\* what n elements, each running the same steps, leave in a log
RECURSIVE Repeat(_, _)
Repeat(n, log) == IF n = 0 THEN <<>> ELSE log \o Repeat(n - 1, log)

MonthSelector(minDate, maxDate, selectedDate, callback, n) ==
    /\ ~Constructed
    /\ \E cfg \in {[minDate |-> ToDate(minDate), maxDate |-> ToDate(maxDate),
                     selectedDate |-> ToDate(selectedDate), callback |-> callback]} :
       \E err \in {ValidateConfig(cfg)} :
           /\ lastOp' = "construct"
           /\ lastCfg' = <<minDate, maxDate, selectedDate>>
           /\ IF err # "none"
              THEN \* thrown before this.each: no element is touched
                   /\ thrown' = err
                   /\ calls' = 0
                   /\ callbacks' = <<>>
                   /\ lastArg' = NoArg
                   /\ UNCHANGED <<counter, config, ids, widget>>
              ELSE \E r \in {_setDate(NewWidget(cfg), cfg.selectedDate, cfg)} :
                   /\ lastArg' = cfg.selectedDate
                   /\ thrown' = r.thrown
                   /\ IF r.thrown # "none"
                      THEN \* the first element took an id, then _setDate threw:
                           \* its controls are never appended
                           /\ counter' = counter + 1
                           /\ calls' = 0
                           /\ callbacks' = <<>>
                           /\ UNCHANGED <<config, ids, widget>>
                      ELSE /\ config' = [minDate |-> cfg.minDate, maxDate |-> cfg.maxDate,
                                         callback |-> callback]
                           /\ ids' = [i \in 1 .. n |-> counter + i - 1]
                           /\ counter' = counter + n
                           /\ widget' = r.widget
                           /\ calls' = n
                           /\ callbacks' = Repeat(n, r.callbacks)

-----------------------------------------------------------------------------
(* The event handlers.  The handlers themselves test no disabled attribute: *)
(* a handler can run (jQuery's .click() and .change() trigger it, and       *)
(* browsers without disabled <option>s let the user pick any month) in any  *)
(* state of the controls.                                                   *)

\* a handler that calls _setDate(date) once, the controls being w when it does
Handle(op, w, date) ==
    \E arg \in {date} : \E r \in {_setDate(w, arg, config)} :
        /\ lastOp' = op
        /\ lastArg' = arg
        /\ lastCfg' = NoCfg
        /\ thrown' = r.thrown
        /\ widget' = r.widget
        /\ callbacks' = r.callbacks
        /\ calls' = IF r.thrown = "none" THEN 1 ELSE 0
        /\ UNCHANGED <<counter, config, ids>>

\* the user picks month option m; $month's change handler runs
MonthChange(m) ==
    /\ Constructed
    /\ LET w == [widget EXCEPT !.month = m]
       IN  Handle("month", w, _getSelectedDate(w))

\* the user picks year option y; $year's change handler runs
YearChange(y) ==
    /\ Constructed
    /\ y \in YearOptions(config)
    /\ LET w == [widget EXCEPT !.year = y]
       IN  Handle("year", w, _getSelectedDate(w))

FirstClick ==
    /\ Constructed
    /\ Handle("first", widget, config.minDate)

LastClick ==
    /\ Constructed
    /\ Handle("last", widget, config.maxDate)

PrevClick ==
    /\ Constructed
    /\ Handle("prev", widget, __getEndOfPreviousMonth(widget.month, widget.year))

NextClick ==
    /\ Constructed
    /\ Handle("next", widget, __getStartOfNextMonth(widget.month, widget.year))

\* The page calls the plugin once: the call is the first thing that happens.
Construct ==
    /\ lastOp = "none"
    /\ \E minDate \in MinValues, maxDate \in MaxValues, selectedDate \in SelectedValues,
          callback \in BOOLEAN, n \in 1 .. MaxTargets :
           MonthSelector(minDate, maxDate, selectedDate, callback, n)

ChangeMonth == \E m \in Months : MonthChange(m)

ChangeYear == \E y \in Years : YearChange(y)

Next ==
    \/ Construct
    \/ ChangeMonth
    \/ ChangeYear
    \/ FirstClick
    \/ LastClick
    \/ PrevClick
    \/ NextClick

Spec == Init /\ [][Next]_vars

-----------------------------------------------------------------------------
(* _setDate on any candidate.  The handlers above only pass valid Dates;    *)
(* SpecHost adds a caller that passes _setDate any value.                   *)

HostValues ==
    {NewDate(y, 5, d) : y \in Years, d \in CfgDays}
        \cup {NewDate(FirstYear, 0, 1), NewDate(LastYear, 11, TicksPerMonth)}
        \cup {InvalidDate, StringOf(FirstYear, 6, 1)}

SetDateCall ==
    /\ Constructed
    /\ \E date \in HostValues : Handle("setDate", widget, date)

NextHost == Next \/ SetDateCall

SpecHost == Init /\ [][NextHost]_vars

-----------------------------------------------------------------------------
(* Navigation runs.  After the plugin call and any changes of the selects   *)
(* and First or Last clicks, the user clicks Next whenever it is enabled    *)
(* and does nothing else, or does the same with Previous.  The fairness     *)
(* conditions say that the user goes on clicking while the button is        *)
(* enabled.  The plugin is called on one element: each element gets its own *)
(* controls and handlers, and no handler reads the id or the counter.       *)

ConstructOne ==
    /\ lastOp = "none"
    /\ \E minDate \in MinValues, maxDate \in MaxValues, selectedDate \in SelectedValues,
          callback \in BOOLEAN :
           MonthSelector(minDate, maxDate, selectedDate, callback, 1)

Setup ==
    /\ lastOp \notin {"prev", "next"}
    /\ (ConstructOne \/ ChangeMonth \/ ChangeYear \/ FirstClick \/ LastClick)

NextRun ==
    /\ lastOp # "prev"
    /\ ~widget.next
    /\ NextClick

PrevRun ==
    /\ lastOp # "next"
    /\ ~widget.prev
    /\ PrevClick

NextNav == Setup \/ NextRun \/ PrevRun

SpecNav == Init /\ [][NextNav]_vars /\ WF_vars(NextRun) /\ WF_vars(PrevRun)

-----------------------------------------------------------------------------
(* Properties *)

minTime == getTime(config.minDate)
maxTime == getTime(config.maxDate)
\* instant(selected): the date getSelectedDate returns
selectedTime == getTime(_getSelectedDate(widget))
\* the position of a (year, month) among all months
MonthIndex(year, month) == year * MonthsPerYear + month
\* the first instant of the month an instant lies in
StartOfMonth(t) == (t \div TicksPerMonth) * TicksPerMonth
UserOps == {"month", "year", "first", "last", "prev", "next"}

\* C1, as stated: after construction and after every user event
\* min <= instant(selected) <= max, also when minDate lies inside its month.
C1_MinLeSelectedLeMax ==
    Constructed =>
        /\ minTime <= selectedTime
        /\ selectedTime <= maxTime
        /\ \A i \in DOMAIN callbacks : getTime(callbacks[i].date) = selectedTime

\* C1, amended: the first instant of min's month <= instant(selected) <= max,
\* and the callback receives instant(selected); min <= instant(selected) holds
\* when min is the first instant of its month.
C1_SelectedMonthInRange ==
    Constructed =>
        /\ StartOfMonth(minTime) <= selectedTime
        /\ selectedTime <= maxTime
        /\ (minTime = StartOfMonth(minTime) => minTime <= selectedTime)
        /\ \A i \in DOMAIN callbacks : getTime(callbacks[i].date) = selectedTime

\* a user event has left the selection on the month of a minDate that lies
\* inside its month
C1_Witness ==
    /\ Constructed
    /\ lastOp \in UserOps
    /\ minTime # StartOfMonth(minTime)
    /\ selectedTime = StartOfMonth(minTime)

\* C2: after _setDate(d) the selected (year, month) is that of max when
\* d > max, that of min when d < min, and that of d otherwise, the instants
\* being compared in full.
C2_SetDateClamps ==
    (Constructed /\ thrown = "none") =>
        LET d == getTime(lastArg)
            effective == IF d > maxTime THEN maxTime ELSE IF d < minTime THEN minTime ELSE d
        IN  selectedTime = StartOfMonth(effective)

\* the configured selectedDate lay after max, in a later month, and was clamped
C2_Witness ==
    /\ Constructed
    /\ lastOp = "construct"
    /\ getTime(lastArg) > maxTime
    /\ StartOfMonth(getTime(lastArg)) # StartOfMonth(maxTime)
    /\ selectedTime = StartOfMonth(maxTime)

\* C3: Previous and First are disabled exactly when the instant before the
\* first instant of the selected month lies before min, and are never in
\* different states; before January lies the last instant of December of the
\* year before.
C3_PrevFirstDisabled ==
    Constructed =>
        /\ widget.prev = (selectedTime - 1 < minTime)
        /\ widget.first = widget.prev
        /\ getTime(__getEndOfPreviousMonth(0, widget.year))
               = getTime(NewDate(widget.year - 1, 11, TicksPerMonth))

\* Next has reached a January whose Previous is enabled
C3_Witness ==
    /\ Constructed
    /\ lastOp = "next"
    /\ widget.month = 0
    /\ ~widget.prev
    /\ ~widget.first

\* C4: Next and Last are disabled exactly when the first instant of the
\* month after the selected one (January of year + 1 after December) lies
\* after max.
C4_NextLastDisabled ==
    Constructed =>
        LET following == IF widget.month = 11
                         THEN NewDate(widget.year + 1, 0, 1)
                         ELSE NewDate(widget.year, widget.month + 1, 1)
        IN  /\ widget.next = (getTime(following) > maxTime)
            /\ widget.last = widget.next

\* Previous has reached a December whose Next is enabled
C4_Witness ==
    /\ Constructed
    /\ lastOp = "prev"
    /\ widget.month = 11
    /\ ~widget.next
    /\ ~widget.last

\* C5: month option m is disabled exactly when the displayed year is min's
\* year and m lies before min's month, or it is max's year and m lies after
\* max's month; in a year strictly between the two no option is disabled.
C5_MonthOptionsDisabled ==
    Constructed =>
        /\ \A m \in Months :
               widget.optionDisabled[m] <=>
                   \/ widget.year = getFullYear(config.minDate) /\ m < getMonth(config.minDate)
                   \/ widget.year = getFullYear(config.maxDate) /\ m > getMonth(config.maxDate)
        /\ (getFullYear(config.minDate) < widget.year /\ widget.year < getFullYear(config.maxDate)
               => \A m \in Months : ~widget.optionDisabled[m])

\* Next has gone from December of min's year, where the months before min's
\* were disabled, to January of a year strictly between min's and max's:
\* every option is enabled again
C5_Witness ==
    /\ Constructed
    /\ lastOp = "next"
    /\ lastArg = _getSelectedDate(widget)
    /\ widget.month = 0
    /\ widget.year = getFullYear(config.minDate) + 1
    /\ widget.year < getFullYear(config.maxDate)
    /\ getMonth(config.minDate) > 0
    /\ \A m \in Months : ~widget.optionDisabled[m]

\* C6: every _setDate call that returns invokes a configured callback once,
\* after the controls are updated, with the first-of-month date of the
\* resulting selection; without a configured callback nothing is invoked.
C6_CallbackOncePerSetDate ==
    /\ Len(callbacks) = IF config.callback THEN calls ELSE 0
    /\ \A i \in DOMAIN callbacks :
           /\ callbacks[i].date = NewDate(widget.year, widget.month, 1)
           /\ callbacks[i].seen = widget
    /\ (thrown = "none" /\ lastOp = "construct" => calls = Len(ids))
    /\ (thrown = "none" /\ lastOp \in UserOps \cup {"setDate"} => calls = 1)
    /\ (thrown # "none" => calls = 0)

\* Previous ran on the month of min: the selection is what it was, and the
\* callback was invoked
C6_Witness ==
    /\ Constructed
    /\ config.callback
    /\ lastOp = "prev"
    /\ lastArg = __getEndOfPreviousMonth(widget.month, widget.year)
    /\ Len(callbacks) = 1

\* C7: a _setDate call whose candidate is not a valid date throws and leaves
\* the selects, the options and the buttons as they were, and invokes no
\* callback.
C7_InvalidDateChangesNothing ==
    [][thrown' = "Invalid date" =>
           /\ widget' = widget
           /\ callbacks' = <<>>
           /\ calls' = 0
           /\ UNCHANGED <<counter, config, ids>>]_vars

\* _setDate has thrown on an Invalid Date, with a callback configured and some
\* options and buttons disabled
C7_Witness ==
    /\ Constructed
    /\ config.callback
    /\ thrown = "Invalid date"
    /\ lastArg = InvalidDate
    /\ widget.prev
    /\ \E m \in Months : widget.optionDisabled[m]

\* C8: the plugin call throws exactly when minDate, maxDate or selectedDate is
\* not a valid date or minDate > maxDate; it then builds no widget, invokes
\* no callback and leaves the counter alone.  Otherwise it builds the widgets.
C8_ConstructionFailsOrBuilds ==
    lastOp = "construct" =>
        LET min == ToDate(lastCfg[1])
            max == ToDate(lastCfg[2])
            selected == ToDate(lastCfg[3])
            bad == \/ ~min.valid
                   \/ ~max.valid
                   \/ ~selected.valid
                   \/ min.time > max.time
        IN  /\ bad <=> thrown # "none"
            /\ bad => /\ ~Constructed
                      /\ widget = NoWidget
                      /\ config = NoConfig
                      /\ callbacks = <<>>
                      /\ counter = 0
            /\ ~bad => /\ Constructed
                       /\ config.minDate = min
                       /\ config.maxDate = max
                       /\ counter = Len(ids)

\* the plugin call has thrown on minDate > maxDate, all three dates being valid
C8_Witness ==
    /\ lastOp = "construct"
    /\ thrown = "minDate exceeds maxDate"
    /\ ToDate(lastCfg[3]).valid
    /\ ~Constructed
    /\ counter = 0

\* C9: where Previous (Next) is enabled, its handler moves the selection to
\* exactly the month before (after); where it is disabled, its handler leaves
\* the selected (month, year) as it is.
C9_NavigationExact ==
    [][/\ lastOp' = "prev" =>
              MonthIndex(widget'.year, widget'.month)
                  = MonthIndex(widget.year, widget.month) - (IF widget.prev THEN 0 ELSE 1)
       /\ lastOp' = "next" =>
              MonthIndex(widget'.year, widget'.month)
                  = MonthIndex(widget.year, widget.month) + (IF widget.next THEN 0 ELSE 1)]_vars

\* Previous, enabled in a January, has moved the selection to December of the
\* year before
C9_Witness ==
    /\ Constructed
    /\ lastOp = "prev"
    /\ widget.month = 11
    /\ lastArg = NewDate(widget.year, 11, TicksPerMonth)
    /\ getTime(lastArg) >= minTime

\* C10: the selected year is one of the year options (min's year to max's
\* year) and the selected month option is not disabled.
C10_SelectionSelectable ==
    Constructed =>
        /\ getFullYear(config.minDate) <= widget.year
        /\ widget.year <= getFullYear(config.maxDate)
        /\ widget.year \in YearOptions(config)
        /\ ~widget.optionDisabled[widget.month]

\* the year select was changed to min's year while a month before min's month
\* was selected: the selection is now min's month
C10_Witness ==
    /\ Constructed
    /\ lastOp = "year"
    /\ getTime(lastArg) < StartOfMonth(minTime)
    /\ widget.year = getFullYear(config.minDate)
    /\ widget.month = getMonth(config.minDate)
    /\ ~widget.optionDisabled[widget.month]

\* the months from the selected month to max's month, and from min's month to
\* the selected month
MonthsToMax ==
    MonthIndex(getFullYear(config.maxDate), getMonth(config.maxDate))
        - MonthIndex(widget.year, widget.month)
MonthsFromMin ==
    MonthIndex(widget.year, widget.month)
        - MonthIndex(getFullYear(config.minDate), getMonth(config.minDate))
\* the controls a Last (First) click would leave, clicked in this state
LastResult == _setDate(widget, config.maxDate, config).widget
FirstResult == _setDate(widget, config.minDate, config).widget

\* C11: clicking Next whenever it is enabled reaches the month of max, one
\* month per click, and Next and Last are then disabled; clicking Previous
\* whenever it is enabled reaches the month of min, one month per click, and
\* Previous and First are then disabled.  The controls at the end of the run
\* are those a single Last (First) click leaves, clicked where the run began.
C11_NavigationReachesBoundaries ==
    /\ [](lastOp = "next" => <>(lastOp = "next" /\ MonthsToMax = 0 /\ widget.next /\ widget.last))
    /\ [](lastOp = "prev" => <>(lastOp = "prev" /\ MonthsFromMin = 0 /\ widget.prev /\ widget.first))
    /\ [][lastOp' = "next" => MonthsToMax' = MonthsToMax - 1 /\ LastResult' = LastResult]_vars
    /\ [][lastOp' = "prev" => MonthsFromMin' = MonthsFromMin - 1 /\ FirstResult' = FirstResult]_vars
    /\ [][lastOp' = "last" => widget' = LastResult]_vars
    /\ [][lastOp' = "first" => widget' = FirstResult]_vars
    /\ [](lastOp = "next" /\ widget.next => widget = LastResult)
    /\ [](lastOp = "prev" /\ widget.prev => widget = FirstResult)

\* a run of Next clicks has crossed a year end and ended on the month of max,
\* in a January, with Next and Last disabled
C11_Witness ==
    /\ Constructed
    /\ lastOp = "next"
    /\ lastArg = _getSelectedDate(widget)
    /\ widget.month = 0
    /\ MonthsToMax = 0
    /\ MonthsFromMin > 0
    /\ widget.next
    /\ widget.last

====
